---- MODULE Spec2Model ----
(***************************************************************************)
(* Income Tax Calculator (src/script.js, class TaxCalculator).             *)
(*                                                                         *)
(* Amounts are integers counted in cents; rates are integers counted in    *)
(* hundredths (0.12 is 12).  A product amount * rate is therefore the      *)
(* JavaScript value "dollars * rate * 100" scaled by Percent, and          *)
(* Math.round(x * 100) / 100 is MathRound(amount * rate, Percent).         *)
(***************************************************************************)
EXTENDS Integers, Sequences, FiniteSets, TLC

\* ------------------------------------------------------------------ units

\* Math.round(tax * 100) / 100: two decimals, i.e. whole cents.
Cents == 100

\* Denominator of the rate literals (rate: 0.10 is 10 / Percent).
Percent == 100

\* The max of a top bracket.
Infinity == 2147483647

\* "Keep only last 10 calculations".
MaxHistory == 10

\* ----------------------------------------------------------------- bounds

\* Cap on the number of entries appended since the list was last empty.
MaxAppends == 11

\* Cap on the number of clearHistory clicks in a row.
MaxClears == 2

\* Longest bracket sequence drawn from BracketPool.
MaxBrackets == 2

\* ---------------------------------------------------------------- helpers

Min(a, b) == IF a < b THEN a ELSE b

Max(a, b) == IF a > b THEN a ELSE b

\* Math.round(num / den) for den > 0: nearest integer, ties towards +Infinity.
MathRound(num, den) == (num + (den \div 2)) \div den

\* ------------------------------------------------------------ static data

taxBrackets2024 ==
    [ single |->
        << [min |-> 0,              max |-> 11000 * Cents,  rate |-> 10],
           [min |-> 11000 * Cents,  max |-> 44725 * Cents,  rate |-> 12],
           [min |-> 44725 * Cents,  max |-> 95375 * Cents,  rate |-> 22],
           [min |-> 95375 * Cents,  max |-> 182050 * Cents, rate |-> 24],
           [min |-> 182050 * Cents, max |-> 231250 * Cents, rate |-> 32],
           [min |-> 231250 * Cents, max |-> 578125 * Cents, rate |-> 35],
           [min |-> 578125 * Cents, max |-> Infinity,       rate |-> 37] >>,
      marriedJointly |->
        << [min |-> 0,              max |-> 22000 * Cents,  rate |-> 10],
           [min |-> 22000 * Cents,  max |-> 89450 * Cents,  rate |-> 12],
           [min |-> 89450 * Cents,  max |-> 190750 * Cents, rate |-> 22],
           [min |-> 190750 * Cents, max |-> 364200 * Cents, rate |-> 24],
           [min |-> 364200 * Cents, max |-> 462500 * Cents, rate |-> 32],
           [min |-> 462500 * Cents, max |-> 693750 * Cents, rate |-> 35],
           [min |-> 693750 * Cents, max |-> Infinity,       rate |-> 37] >> ]

standardDeductions2024 ==
    [ single            |-> 13850 * Cents,
      marriedJointly    |-> 27700 * Cents,
      marriedSeparately |-> 13850 * Cents,
      headOfHousehold   |-> 20800 * Cents ]

stateRates == [ none |-> 0, low |-> 3, medium |-> 6, high |-> 10 ]

\* ------------------------------------------------------------ form values

\* The text of a numeric form field: <<>> is the empty field, <<n>> the
\* text of the amount n.  parseFloat("") is NaN and NaN || 0 is 0.
parseFloatOrZero(text) == IF text = <<>> THEN 0 ELSE text[1]

\* if (!income || !filingStatus): 0 and the empty string are falsy.
invalidInput_incomeOnly(income, filingStatus) == income = 0

invalidInput(income, filingStatus) == income = 0 \/ filingStatus = ""

\* --------------------------------------------------- deduction resolution

\* this.standardDeductions2024[filingStatus] || 13850
standardDeduction(filingStatus) ==
    IF filingStatus \in DOMAIN standardDeductions2024
    THEN standardDeductions2024[filingStatus]
    ELSE 13850 * Cents

\* customDeductions || standardDeduction
resolveDeductions(customDeductions, filingStatus) ==
    IF customDeductions # 0 THEN customDeductions
    ELSE standardDeduction(filingStatus)

\* Math.max(0, income - deductions)
taxableIncomeOf_noFloor(income, deductions) == income - deductions

taxableIncomeOf(income, deductions) == Max(0, income - deductions)

\* marriedSeparately given the joint table.
resolveBrackets_jointForSeparate(filingStatus) ==
    IF filingStatus \in {"marriedJointly", "marriedSeparately"}
    THEN taxBrackets2024.marriedJointly
    ELSE taxBrackets2024.single

\* this.taxBrackets2024[filingStatus] || this.taxBrackets2024.single
resolveBrackets(filingStatus) ==
    IF filingStatus \in DOMAIN taxBrackets2024
    THEN taxBrackets2024[filingStatus]
    ELSE taxBrackets2024.single

\* ------------------------------------------------------------ federal tax

\* The for loop of calculateFederalTax from bracket i on; tax is the
\* accumulator, scaled by Percent.
RECURSIVE federalLoop(_, _, _, _)
federalLoop(taxableIncome, brackets, i, tax) ==
    IF i > Len(brackets) THEN tax
    ELSE LET bracket == brackets[i]
         IN IF taxableIncome > bracket.min
            THEN federalLoop(taxableIncome, brackets, i + 1,
                     tax + (Min(taxableIncome, bracket.max) - bracket.min)
                           * bracket.rate)
            ELSE federalLoop(taxableIncome, brackets, i + 1, tax)

\* The loop taxing only the bracket that contains the income.
RECURSIVE federalLoop_ownBracket(_, _, _, _)
federalLoop_ownBracket(taxableIncome, brackets, i, tax) ==
    IF i > Len(brackets) THEN tax
    ELSE LET bracket == brackets[i]
         IN IF taxableIncome > bracket.min /\ taxableIncome <= bracket.max
            THEN federalLoop_ownBracket(taxableIncome, brackets, i + 1,
                     tax + (taxableIncome - bracket.min) * bracket.rate)
            ELSE federalLoop_ownBracket(taxableIncome, brackets, i + 1, tax)

\* Math.floor in place of Math.round.
calculateFederalTax_floor(taxableIncome, brackets) ==
    federalLoop(taxableIncome, brackets, 1, 0) \div Percent

calculateFederalTax_ownBracket(taxableIncome, brackets) ==
    MathRound(federalLoop_ownBracket(taxableIncome, brackets, 1, 0), Percent)

calculateFederalTax(taxableIncome, brackets) ==
    MathRound(federalLoop(taxableIncome, brackets, 1, 0), Percent)

\* -------------------------------------------------------------- state tax

\* stateRates[state] || 0
stateRateOf(state) ==
    IF state \in DOMAIN stateRates THEN stateRates[state] ELSE 0

\* The rates read as tenths instead of hundredths (high: 1.0).
calculateStateTax_tenths(income, state) ==
    MathRound(income * stateRateOf(state), 10)

calculateStateTax(income, state) ==
    MathRound(income * stateRateOf(state), Percent)

\* ---------------------------------------------------------- marginal rate

\* The for loop of getMarginalRate from bracket i on: the index of the
\* bracket whose rate is returned, 0 when the loop falls through.
RECURSIVE marginalLoop(_, _, _)
marginalLoop(taxableIncome, brackets, i) ==
    IF i > Len(brackets) THEN 0
    ELSE IF taxableIncome >= brackets[i].min /\ taxableIncome < brackets[i].max
         THEN i
         ELSE marginalLoop(taxableIncome, brackets, i + 1)

\* The loop with the bounds of the test shifted (> min, <= max).
RECURSIVE marginalLoop_shifted(_, _, _)
marginalLoop_shifted(taxableIncome, brackets, i) ==
    IF i > Len(brackets) THEN 0
    ELSE IF taxableIncome > brackets[i].min /\ taxableIncome <= brackets[i].max
         THEN i
         ELSE marginalLoop_shifted(taxableIncome, brackets, i + 1)

marginalBracket_shifted(taxableIncome, brackets) ==
    marginalLoop_shifted(taxableIncome, brackets, 1)

marginalBracket(taxableIncome, brackets) ==
    marginalLoop(taxableIncome, brackets, 1)

\* rate: the value returned; fallback: whether it came from the line after
\* the loop, brackets[brackets.length - 1].rate.
getMarginalRate(taxableIncome, brackets) ==
    LET i == marginalBracket(taxableIncome, brackets)
    IN IF i # 0
       THEN [rate |-> brackets[i].rate, fallback |-> FALSE]
       ELSE [rate |-> brackets[Len(brackets)].rate, fallback |-> TRUE]

\* ---------------------------------------------------------- persistence

\* A history entry as saveToHistory receives it.
HistoryEntry(date, income, filingStatus, federalTax, stateTax, totalTax, afterTaxIncome) ==
    [ date |-> date, income |-> income, filingStatus |-> filingStatus,
      federalTax |-> federalTax, stateTax |-> stateTax,
      totalTax |-> totalTax, afterTaxIncome |-> afterTaxIncome ]

\* The value of localStorage under the key 'taxHistory'.  kind is
\*   "absent"      no entry: getItem returns null
\*   "syntaxError" a text that is not JSON
\*   "falsy"       the JSON text of null, 0, false or ""
\*   "truthyOther" the JSON text of a truthy value that is no list of entries
\*   "list"        the JSON text of an array of entries, one tuple of the
\*                 member values in member order for each entry
StoreAbsent == [kind |-> "absent", items |-> <<>>]

StoreText(kind) == [kind |-> kind, items |-> <<>>]

\* JSON.stringify(this.history)
JSONstringify(list) ==
    [ kind  |-> "list",
      items |-> [ i \in 1..Len(list) |->
                    << list[i].date, list[i].income, list[i].filingStatus,
                       list[i].federalTax, list[i].stateTax,
                       list[i].totalTax, list[i].afterTaxIncome >> ] ]

\* JSON.parse(localStorage.getItem('taxHistory')): getItem's null is
\* converted to the text "null", which parses to null.
\*   throws: a SyntaxError is raised;  truthy: the value is truthy;
\*   isList: the value is an array of entries;  list: that array.
JSONparse(item) ==
    CASE item.kind = "syntaxError" ->
           [throws |-> TRUE, truthy |-> FALSE, isList |-> FALSE, list |-> <<>>]
      [] item.kind = "truthyOther" ->
           [throws |-> FALSE, truthy |-> TRUE, isList |-> FALSE, list |-> <<>>]
      [] item.kind = "list" ->
           [throws |-> FALSE, truthy |-> TRUE, isList |-> TRUE,
            list |-> [ i \in 1..Len(item.items) |->
                         HistoryEntry(item.items[i][1], item.items[i][2],
                                      item.items[i][3], item.items[i][4],
                                      item.items[i][5], item.items[i][6],
                                      item.items[i][7]) ]]
      [] OTHER ->
           [throws |-> FALSE, truthy |-> FALSE, isList |-> FALSE, list |-> <<>>]

\* The constructor's load, lines 38-43:
\*   this.history = JSON.parse(localStorage.getItem('taxHistory')) || [];
\*   ... this.displayHistory();
\* crashed: the constructor throws, either in JSON.parse or in
\* displayHistory, which calls map and toLocaleString on what was parsed.
load(item) ==
    LET parsed == JSONparse(item)
    IN IF parsed.throws \/ (parsed.truthy /\ ~parsed.isList)
       THEN [crashed |-> TRUE, history |-> <<>>]
       ELSE [crashed |-> FALSE,
             history |-> IF parsed.truthy THEN parsed.list ELSE <<>>]

\* saveToHistory without the pop.
saveToHistory_noPop(history, calculation) ==
    LET unshifted == <<calculation>> \o history
    IN [history |-> unshifted, store |-> JSONstringify(unshifted)]

\* saveToHistory writing the store before the list is updated.
saveToHistory_staleStore(history, calculation) ==
    LET unshifted == <<calculation>> \o history
        kept == IF Len(unshifted) > MaxHistory
                THEN SubSeq(unshifted, 1, Len(unshifted) - 1)
                ELSE unshifted
    IN [history |-> kept, store |-> JSONstringify(history)]

\* saveToHistory: unshift, pop when longer than 10, setItem.
saveToHistory(history, calculation) ==
    LET unshifted == <<calculation>> \o history
        kept == IF Len(unshifted) > MaxHistory
                THEN SubSeq(unshifted, 1, Len(unshifted) - 1)
                ELSE unshifted
    IN [history |-> kept, store |-> JSONstringify(kept)]

\* ----------------------------------------------------------- calculation

\* The values calculateTax derives from the form, lines 79-95 and 181.
calculate(income, filingStatus, customDeductions, state) ==
    LET deductions == resolveDeductions(customDeductions, filingStatus)
        taxableIncome == taxableIncomeOf(income, deductions)
        brackets == resolveBrackets(filingStatus)
        federalTax == calculateFederalTax(taxableIncome, brackets)
        stateTax == calculateStateTax(income, state)
        totalTax == federalTax + stateTax
        afterTaxIncome == income - totalTax
        marginal == getMarginalRate(taxableIncome, brackets)
    IN [ income |-> income, filingStatus |-> filingStatus,
         deductions |-> deductions, taxableIncome |-> taxableIncome,
         federalTax |-> federalTax, stateTax |-> stateTax,
         totalTax |-> totalTax, afterTaxIncome |-> afterTaxIncome,
         brackets |-> brackets, marginalRate |-> marginal.rate,
         marginalFallback |-> marginal.fallback ]

\* ------------------------------------------------------------------ state

VARIABLES
    pc,          \* "start": page loading; "ready": constructed; "crashed"
    form,        \* the values of the form fields
    history,     \* this.history
    store,       \* localStorage['taxHistory']
    results,     \* what displayResults last showed: <<>> or <<record>>
    lastOp,      \* the handler that ran last
    appended,    \* the entries appended since the list was last empty, oldest first
    clearsInRow, \* clearHistory calls since the last other handler
    fed          \* an application of calculateFederalTax and getMarginalRate

vars == << pc, form, history, store, results, lastOp, appended, clearsInRow, fed >>

\* new Date().toLocaleDateString()
Dates == {"11/3/2026"}

Form(income, filingStatus, deductions, state) ==
    [ income |-> income, filingStatus |-> filingStatus,
      deductions |-> deductions, state |-> state ]

BlankForm == Form(<<>>, "", <<>>, "")

\* The forms of the history specification.
Forms ==
    { BlankForm,
      Form(<<0>>, "single", <<>>, "low"),
      Form(<<50000 * Cents>>, "", <<>>, "low"),
      Form(<<50000 * Cents>>, "single", <<0>>, "low"),
      Form(<<120000 * Cents>>, "marriedJointly", <<30000 * Cents>>, "high") }

NoFed == [phase |-> "none", a |-> 0, b |-> 0, brackets |-> <<>>,
          taxA |-> 0, taxB |-> 0, marginalA |-> 0, fallbackA |-> FALSE]

\* The page before DOMContentLoaded, with whatever the store holds.
Init ==
    /\ pc = "start"
    /\ form = BlankForm
    /\ history = <<>>
    /\ store \in { StoreAbsent, StoreText("syntaxError"), StoreText("falsy"),
                   StoreText("truthyOther") }
    /\ results = <<>>
    /\ lastOp = "none"
    /\ appended = <<>>
    /\ clearsInRow = 0
    /\ fed = NoFed

\* DOMContentLoaded: new TaxCalculator().
Construct ==
    /\ pc = "start"
    /\ LET loaded == load(store)
       IN /\ pc' = IF loaded.crashed THEN "crashed" ELSE "ready"
          /\ history' = loaded.history
    /\ lastOp' = "load"
    /\ UNCHANGED << form, store, results, appended, clearsInRow, fed >>

\* The user fills in the form.
EditForm ==
    /\ pc = "ready"
    /\ \E f \in Forms : form' = f
    /\ form' # form
    /\ lastOp' = "edit"
    /\ clearsInRow' = 0
    /\ UNCHANGED << pc, history, store, results, appended, fed >>

\* The submit handler: calculateTax.
Submit ==
    /\ pc = "ready"
    /\ LET income == parseFloatOrZero(form.income)
           filingStatus == form.filingStatus
           customDeductions == parseFloatOrZero(form.deductions)
           state == form.state
       IN IF invalidInput(income, filingStatus)
          THEN /\ lastOp' = "invalid"
               /\ UNCHANGED << history, store, results, appended >>
          ELSE /\ Len(appended) < MaxAppends
               /\ \E date \in Dates :
                    LET r == calculate(income, filingStatus, customDeductions, state)
                        entry == HistoryEntry(date, r.income, r.filingStatus,
                                              r.federalTax, r.stateTax, r.totalTax,
                                              r.afterTaxIncome)
                        saved == saveToHistory(history, entry)
                    IN /\ results' = <<r>>
                       /\ history' = saved.history
                       /\ store' = saved.store
                       /\ appended' = Append(appended, entry)
                       /\ lastOp' = "calculated"
    /\ clearsInRow' = 0
    /\ UNCHANGED << pc, form, fed >>

\* The click handler of the clear button: clearHistory.
Clear ==
    /\ pc = "ready"
    /\ clearsInRow < MaxClears
    /\ history' = <<>>
    /\ store' = StoreAbsent
    /\ appended' = <<>>
    /\ clearsInRow' = clearsInRow + 1
    /\ lastOp' = "clear"
    /\ UNCHANGED << pc, form, results, fed >>

\* The page is loaded again: a new document, the store kept.
Reload ==
    /\ pc \in {"ready", "crashed"}
    /\ pc' = "start"
    /\ form' = BlankForm
    /\ history' = <<>>
    /\ results' = <<>>
    /\ lastOp' = "none"
    /\ clearsInRow' = 0
    /\ UNCHANGED << store, appended, fed >>

Next == Construct \/ EditForm \/ Submit \/ Clear \/ Reload

Spec == Init /\ [][Next]_vars

\* ------------------------------------------- calculation specification

\* The form values the calculation is exercised on.
CalcIncomes ==
    { <<>>, <<0>>, <<1>>, <<5>>, <<6>>, <<-100>>, <<13850 * Cents>>,
      <<13850 * Cents + 5>>, <<24850 * Cents>>, <<50000 * Cents>>,
      <<100000 * Cents>>, <<600000 * Cents>> }

CalcStatuses ==
    { "", "single", "marriedJointly", "marriedSeparately", "headOfHousehold",
      "widow" }

CalcDeductions == { <<>>, <<0>>, <<1>>, <<5000 * Cents>>, <<-10000 * Cents>> }

CalcStates == { "", "none", "low", "medium", "high", "territory" }

CalcForms ==
    { Form(i, fs, d, st) : i \in CalcIncomes, fs \in CalcStatuses,
                           d \in CalcDeductions, st \in CalcStates }

\* A constructed page with an empty store and a filled-in form.
InitCalc ==
    /\ pc = "ready"
    /\ form \in CalcForms
    /\ history = <<>>
    /\ store = StoreAbsent
    /\ results = <<>>
    /\ lastOp = "load"
    /\ appended = <<>>
    /\ clearsInRow = 0
    /\ fed = NoFed

NextCalc == Submit

SpecCalc == InitCalc /\ [][NextCalc]_vars

\* ------------------------------------------ federal engine specification

\* Brackets the drawn sequences are made of: contiguous ones, an
\* overlapping one, a zero-rate one and finite or unbounded tops.
BracketPool ==
    { [min |-> 0,   max |-> 100,      rate |-> 10],
      [min |-> 100, max |-> Infinity, rate |-> 37],
      [min |-> 100, max |-> 250,      rate |-> 12],
      [min |-> 50,  max |-> 300,      rate |-> 99],
      [min |-> 0,   max |-> Infinity, rate |-> 0] }

BracketTables ==
    { taxBrackets2024.single, taxBrackets2024.marriedJointly }
    \cup UNION { [1..n -> BracketPool] : n \in 1..MaxBrackets }

\* The incomes a table is exercised on: around each of its bounds.
TestIncomes(brackets) ==
    { -1, 0, 1, 5 }
    \cup UNION { { brackets[i].min, brackets[i].min + 1, brackets[i].min + 5 }
                 \cup ( IF brackets[i].max = Infinity THEN {}
                        ELSE { brackets[i].max - 1, brackets[i].max } )
                 : i \in 1..Len(brackets) }

FedInputs ==
    UNION { { [NoFed EXCEPT !.phase = "input", !.a = p[1], !.b = p[2],
                            !.brackets = t]
              : p \in { q \in TestIncomes(t) \X TestIncomes(t) : q[1] <= q[2] } }
            : t \in BracketTables }

InitFed ==
    /\ pc = "ready"
    /\ form = BlankForm
    /\ history = <<>>
    /\ store = StoreAbsent
    /\ results = <<>>
    /\ lastOp = "load"
    /\ appended = <<>>
    /\ clearsInRow = 0
    /\ fed \in FedInputs

\* calculateFederalTax on a and on b, getMarginalRate on a.
ApplyFederal ==
    /\ fed.phase = "input"
    /\ LET marginal == getMarginalRate(fed.a, fed.brackets)
       IN fed' = [fed EXCEPT
                    !.phase = "done",
                    !.taxA = calculateFederalTax(fed.a, fed.brackets),
                    !.taxB = calculateFederalTax(fed.b, fed.brackets),
                    !.marginalA = marginal.rate,
                    !.fallbackA = marginal.fallback]
    /\ UNCHANGED << pc, form, history, store, results, lastOp, appended,
                    clearsInRow >>

NextFed == ApplyFederal

SpecFed == InitFed /\ [][NextFed]_vars

\* ============================================================== claims

\* What the submit handler read from the form.
SubmittedIncome == parseFloatOrZero(form.income)

SubmittedDeductions == parseFloatOrZero(form.deductions)

\* ------------------------------------------------------------------- C1
\* C1: once constructed, the history list never holds more than 10
\* entries, and it is the 10 most recently appended entries (all of them
\* when fewer were appended), newest first.
C1_HistoryIsLastTen ==
    pc = "ready" =>
        /\ Len(history) <= 10
        /\ Len(history) = Min(10, Len(appended))
        /\ \A i \in 1..Len(history) :
               history[i] = appended[Len(appended) - i + 1]

\* An eleventh entry was appended and the oldest one dropped.
C1_Witness ==
    /\ pc = "ready"
    /\ lastOp = "calculated"
    /\ Len(appended) > 10
    /\ Len(history) = 10
    /\ history[1] # history[2]
    /\ appended[1] # appended[2]

\* ------------------------------------------------------------------- C2
\* C2: a submit whose income is zero or absent, or whose filing status is
\* absent, is rejected and changes neither the history list, nor the
\* store, nor the results shown; every other submit appends exactly one
\* entry, which becomes the head of the list.
C2_RejectedWritesNothing ==
    [][ (pc = "ready" /\ lastOp' \in {"invalid", "calculated"}) =>
          IF form.income = <<>> \/ form.income = <<0>> \/ form.filingStatus = ""
          THEN /\ lastOp' = "invalid"
               /\ history' = history
               /\ store' = store
               /\ results' = results
               /\ appended' = appended
          ELSE /\ lastOp' = "calculated"
               /\ Len(appended') = Len(appended) + 1
               /\ SubSeq(appended', 1, Len(appended)) = appended
               /\ Len(history') = Min(10, Len(history) + 1)
               /\ history'[1] = appended'[Len(appended')]
               /\ history'[1].income = form.income[1]
               /\ \A i \in 2..Len(history') : history'[i] = history[i - 1]
      ]_vars

\* A submit was rejected while the list held entries.
C2_Witness ==
    /\ pc = "ready"
    /\ lastOp = "invalid"
    /\ Len(history) >= 1
    /\ store.kind = "list"
    /\ form.income # <<>>
    /\ form.filingStatus = ""

\* ------------------------------------------------------------------- C3
\* C3: the load at startup yields an empty list, without a crash,
\* whenever the store's entry is absent or malformed.
C3_MalformedLoadsEmpty ==
    (lastOp = "load" /\ store.kind # "list") =>
        (pc = "ready" /\ history = <<>>)

\* ------------------------------------------------------------------- C4
\* C4: the store mirrors the list: what a load of the store yields is the
\* list in memory; after an append its head is the appended entry; after
\* one clear or two in a row the list is empty and a load of the store
\* yields the empty list.
C4_StoreMirrorsHistory ==
    /\ pc = "ready" =>
           /\ ~load(store).crashed
           /\ load(store).history = history
    /\ lastOp = "calculated" =>
           /\ load(store).history # <<>>
           /\ load(store).history[1] = appended[Len(appended)]
    /\ clearsInRow >= 1 =>
           /\ history = <<>>
           /\ ~load(store).crashed
           /\ load(store).history = <<>>
    /\ (lastOp = "load" /\ store.kind = "absent") => history = <<>>

\* An entry was appended in front of an older, different one.
C4_Witness ==
    /\ pc = "ready"
    /\ lastOp = "calculated"
    /\ Len(history) >= 2
    /\ history[1] # history[2]
    /\ store.kind = "list"
    /\ Len(store.items) = Len(history)

\* ------------------------------------------------------------------- C5
\* The sum of a sequence of numbers.
RECURSIVE SumSeq(_)
SumSeq(q) == IF q = <<>> THEN 0 ELSE q[1] + SumSeq(Tail(q))

\* What each bracket contributes: nothing unless its min is strictly
\* below the income, else (min(income, max) - min) * rate.
BracketShares(taxableIncome, brackets) ==
    [ i \in 1..Len(brackets) |->
        IF brackets[i].min < taxableIncome
        THEN (Min(taxableIncome, brackets[i].max) - brackets[i].min)
             * brackets[i].rate
        ELSE 0 ]

ProgressiveTax(taxableIncome, brackets) ==
    MathRound(SumSeq(BracketShares(taxableIncome, brackets)), 100)

\* Contiguous from 0, ascending, the last bracket unbounded.
Contiguous(brackets) ==
    /\ brackets[1].min = 0
    /\ brackets[Len(brackets)].max = Infinity
    /\ \A i \in 1..Len(brackets) : brackets[i].min < brackets[i].max
    /\ \A i \in 1..(Len(brackets) - 1) : brackets[i].max = brackets[i + 1].min

\* C5: for taxableIncome >= 0 calculateFederalTax is the sum of the
\* brackets' shares rounded to cents; it is 0 for taxableIncome 0; and in
\* a contiguous table an income inside bracket k pays the full width of
\* the brackets below k at their rates and the rest at the rate of k.
C5_FederalTaxIsProgressiveSum ==
    (fed.phase = "done" /\ fed.a >= 0) =>
        /\ fed.taxA = ProgressiveTax(fed.a, fed.brackets)
        /\ fed.a = 0 => fed.taxA = 0
        /\ Contiguous(fed.brackets) =>
             \A k \in 1..Len(fed.brackets) :
                (fed.brackets[k].min <= fed.a /\ fed.a < fed.brackets[k].max) =>
                    fed.taxA =
                        MathRound(
                            SumSeq([ j \in 1..(k - 1) |->
                                       (fed.brackets[j].max - fed.brackets[j].min)
                                       * fed.brackets[j].rate ])
                            + (fed.a - fed.brackets[k].min) * fed.brackets[k].rate,
                            100)

\* An income in the third bracket of the single table whose tax is not a
\* whole number of cents before rounding.
C5_Witness ==
    /\ fed.phase = "done"
    /\ fed.brackets = taxBrackets2024.single
    /\ fed.a = 44725 * Cents + 5
    /\ fed.taxA = 514700 + 1

\* ------------------------------------------------------------------- C7
\* C7: calculateFederalTax is non-decreasing in taxableIncome: for
\* 0 <= a <= b the tax on a is at most the tax on b.
C7_FederalTaxMonotone ==
    (fed.phase = "done" /\ 0 <= fed.a /\ fed.a <= fed.b) =>
        fed.taxA <= fed.taxB

\* Two incomes on either side of a bracket bound with different taxes.
C7_Witness ==
    /\ fed.phase = "done"
    /\ fed.brackets = taxBrackets2024.marriedJointly
    /\ fed.a = 22000 * Cents
    /\ fed.b = 22000 * Cents + 5
    /\ fed.taxA < fed.taxB

\* ------------------------------------------------------------------- C8
\* The brackets whose [min, max) holds the income.
Holding(taxableIncome, brackets) ==
    { k \in 1..Len(brackets) :
        brackets[k].min <= taxableIncome /\ taxableIncome < brackets[k].max }

\* C8: an income inside a bracket's [min, max) gets the rate of the first
\* such bracket, not the fallback; against the built-in tables the
\* fallback is never taken for a non-negative income.
C8_MarginalRateOfHoldingBracket ==
    fed.phase = "done" =>
        /\ Holding(fed.a, fed.brackets) # {} =>
             /\ ~fed.fallbackA
             /\ \E k \in Holding(fed.a, fed.brackets) :
                  /\ \A j \in Holding(fed.a, fed.brackets) : k <= j
                  /\ fed.marginalA = fed.brackets[k].rate
        /\ ( fed.a >= 0
             /\ fed.brackets \in { taxBrackets2024.single,
                                   taxBrackets2024.marriedJointly } ) =>
             ~fed.fallbackA

\* An income on the lower bound of the top bracket of the single table.
C8_Witness ==
    /\ fed.phase = "done"
    /\ fed.brackets = taxBrackets2024.single
    /\ fed.a = 578125 * Cents
    /\ fed.marginalA = 37
    /\ ~fed.fallbackA

\* ------------------------------------------------------------------- C6
\* The flat rate of a state category, in hundredths.
CategoryRate(state) ==
    CASE state = "none" -> 0
      [] state = "low" -> 3
      [] state = "medium" -> 6
      [] state = "high" -> 10
      [] OTHER -> 0

\* C6: an accepted calculation shows taxableIncome = max(0, income -
\* deductions), the federal tax of that taxable income, the state tax of
\* the gross income at the category's flat rate, their sum as total tax
\* and income less the total as after-tax income; income 50000, single,
\* no custom deduction, state low gives 36150, 4118.00, 1500.00, 5618.00,
\* 44382.00 and a marginal rate of 0.12.
C6_ResultArithmetic ==
    lastOp = "calculated" =>
        LET r == results[1]
        IN /\ r.income = SubmittedIncome
           /\ r.taxableIncome = IF r.income - r.deductions > 0
                                THEN r.income - r.deductions ELSE 0
           /\ r.federalTax = ProgressiveTax(r.taxableIncome, r.brackets)
           /\ r.stateTax = MathRound(r.income * CategoryRate(form.state), 100)
           /\ r.totalTax = r.federalTax + r.stateTax
           /\ r.afterTaxIncome = r.income - r.totalTax
           /\ ( /\ form.income = <<5000000>>
                /\ form.filingStatus = "single"
                /\ form.deductions \in {<<>>, <<0>>}
                /\ form.state = "low" ) =>
                  /\ r.taxableIncome = 3615000
                  /\ r.federalTax = 411800
                  /\ r.stateTax = 150000
                  /\ r.totalTax = 561800
                  /\ r.afterTaxIncome = 4438200
                  /\ r.marginalRate = 12

\* The scenario of the claim was submitted and its entry appended.
C6_Witness ==
    /\ lastOp = "calculated"
    /\ form = Form(<<5000000>>, "single", <<0>>, "low")
    /\ results[1].taxableIncome = 3615000
    /\ history[1].totalTax = 561800

\* ------------------------------------------------------------------- C9
\* The standard deduction of a filing status, in cents.
StandardDeductionTable(filingStatus) ==
    CASE filingStatus = "single" -> 1385000
      [] filingStatus = "marriedJointly" -> 2770000
      [] filingStatus = "marriedSeparately" -> 1385000
      [] filingStatus = "headOfHousehold" -> 2080000
      [] OTHER -> 1385000

\* C9: the deduction is the custom one when present and non-zero, else
\* the standard deduction of the filing status, else 13850, and no error
\* is raised; the brackets are the status's own table for single and
\* marriedJointly and single's table otherwise, so marriedSeparately pays
\* single's federal tax on income less its own standard deduction.
C9_DeductionAndBracketResolution ==
    lastOp = "calculated" =>
        LET r == results[1]
        IN /\ pc = "ready"
           /\ r.deductions =
                IF form.deductions # <<>> /\ form.deductions[1] # 0
                THEN form.deductions[1]
                ELSE StandardDeductionTable(form.filingStatus)
           /\ r.brackets =
                IF form.filingStatus = "marriedJointly"
                THEN taxBrackets2024.marriedJointly
                ELSE taxBrackets2024.single
           /\ r.brackets[1].max =
                IF form.filingStatus = "marriedJointly" THEN 2200000 ELSE 1100000
           /\ form.filingStatus = "marriedSeparately" =>
                r.federalTax =
                    ProgressiveTax(r.taxableIncome, taxBrackets2024.single)

\* marriedSeparately without a custom deduction, taxed above single's
\* first bracket.
C9_Witness ==
    /\ lastOp = "calculated"
    /\ form.filingStatus = "marriedSeparately"
    /\ form.deductions = <<>>
    /\ results[1].deductions = 1385000
    /\ results[1].taxableIncome > 1100000
    /\ results[1].marginalRate = 12

\* ------------------------------------------------------------------ C10
\* C10: with income > 0 and a custom deduction >= 0 the total tax never
\* exceeds the income, so the after-tax income shown, and that of every
\* history entry, is never negative.
C10_TotalTaxAtMostIncome ==
    (lastOp = "calculated" /\ SubmittedIncome > 0 /\ SubmittedDeductions >= 0) =>
        /\ results[1].totalTax <= SubmittedIncome
        /\ results[1].afterTaxIncome >= 0
        /\ \A i \in 1..Len(history) :
              /\ history[i].afterTaxIncome >= 0
              /\ history[i].totalTax <= history[i].income

\* The heaviest case: the top federal bracket and the top state rate.
C10_Witness ==
    /\ lastOp = "calculated"
    /\ SubmittedIncome = 600000 * Cents
    /\ form.deductions = <<1>>
    /\ form.state = "high"
    /\ results[1].marginalRate = 37
    /\ results[1].totalTax > 0
    /\ Len(history) >= 2

====
